---- MODULE Spec2Model ----
(***************************************************************************)
(* Genome decoding engine of gene.jax (src/gene/encoding.py).              *)
(*                                                                         *)
(* One decode call is modelled as a small state machine: Init draws the    *)
(* call's inputs (config and genome), genome_to_model dispatches on the    *)
(* encoding type, and gene_decoding / direct_decoding advance statement    *)
(* group by statement group until they return or raise.                    *)
(*                                                                         *)
(* Arrays are TLA+ sequences (1-based); every index that the Python code   *)
(* computes is kept 0-based and shifted by one only where the array is     *)
(* read.                                                                   *)
(***************************************************************************)
EXTENDS Integers, Sequences, FiniteSets

VARIABLES
    config,             \* the config dict of the call
    genome,             \* the flat genome passed to the call
    chosen,             \* parameters the caller encoded into genome (<<>> if none)
    pc,                 \* position inside the call
    raised,             \* exception that left the call ("none" if none)
    genome_w,           \* local of both decoders
    genome_b,           \* local of both decoders
    genome_w_positions, \* local of gene_decoding
    i,                  \* loop index of the transition loop
    offset,             \* local of direct_decoding
    weight_matrix,      \* local of both decoders
    biases,             \* local of both decoders
    src_idx,            \* local of gene_decoding
    target_idx,         \* local of gene_decoding
    model_parameters,   \* dict under construction, in insertion order
    slicing,            \* log of the array slicing operations performed so far
    run_pc,             \* position inside run ("off": no run, one decode call)
    num_dims,           \* local of run
    state,              \* local of run: the strategy state object held
    x,                  \* local of run: the population of the generation
    temp_fitness,       \* local of run: evaluation results, one per individual
    fitness,            \* local of run
    tracker_state,      \* local of run
    generation,         \* local of run: the loop variable _generation
    individual,         \* index of the individual being evaluated
    result,             \* value returned by run ("none" before)
    objects,            \* number of strategy state objects made so far
    chain,              \* the strategy calls of the run, by state object
    log,                \* the collaborator calls of the current generation
    decoded             \* genomes decoded so far in the run, with the outcome

run_vars == <<run_pc, num_dims, state, x, temp_fitness, fitness, tracker_state,
              generation, individual, result, objects, chain, log, decoded>>

vars == <<config, genome, chosen, pc, raised, genome_w, genome_b,
          genome_w_positions, i, offset, weight_matrix, biases, src_idx,
          target_idx, model_parameters, slicing, run_vars>>

----------------------------------------------------------------------------
(* Bounds of the model *)

MaxLayers == 3
MaxDim == 2
MaxD == 2
MaxSeed == 2
Slack == 1

----------------------------------------------------------------------------
(* Python / jax.numpy primitives used by the decoders *)

Min(a, b) == IF a < b THEN a ELSE b
Max(a, b) == IF a > b THEN a ELSE b

\* Python's builtin sum over a list
RECURSIVE sum(_)
sum(s) == IF Len(s) = 0 THEN 0 ELSE s[1] + sum(Tail(s))

\* s[a:b] for 0 <= a, with Python's clamping of both ends
PySlice(s, a, b) ==
    LET lo == Min(Max(a, 0), Len(s))
        hi == Min(Max(b, lo), Len(s))
    IN  [k \in 1..(hi - lo) |-> s[lo + k]]

\* zip(layer_dims[:-1], layer_dims[1:])
Transitions(layer_dims) ==
    [k \in 1..Max(Len(layer_dims) - 1, 0) |->
        [layer_in |-> layer_dims[k], layer_out |-> layer_dims[k + 1]]]

\* jnp.split(a, [k]): the pair (a[:k], a[k:])
SplitAt(a, k) == <<PySlice(a, 0, k), PySlice(a, k, Len(a))>>

\* jnp.split(a, n) for an array whose length n divides: n equal sections
SplitSections(a, n) ==
    LET w == Len(a) \div n
    IN  [k \in 1..n |-> [j \in 1..w |-> a[(k - 1) * w + j]]]

\* lax.dynamic_slice start index: clamped so that the slice stays inside
ClampStart(len, start, size) == Max(0, Min(start, len - size))

\* lax.dynamic_slice(a, (start,), (size,)) for size <= len(a)
dynamic_slice(a, start, size) ==
    LET st == ClampStart(Len(a), start, size)
    IN  [k \in 1..size |-> a[st + k]]

\* reshape that fills the matrix column by column
reshape_column_major(weights, rows, cols) ==
    [r \in 1..rows |-> [c \in 1..cols |-> weights[(c - 1) * rows + r]]]

\* reshape with the two dimensions of newshape exchanged
reshape_swapped(weights, rows, cols) ==
    [r \in 1..cols |-> [c \in 1..rows |-> weights[(r - 1) * rows + c]]]

\* jnp.reshape(weights, newshape=(rows, cols)), row-major
reshape(weights, rows, cols) ==
    [r \in 1..rows |-> [c \in 1..cols |-> weights[(r - 1) * cols + c]]]

\* jnp.arange(start=0, stop=n) shifted by base
arange_from(base, n) == [k \in 1..n |-> base + (k - 1)]

----------------------------------------------------------------------------
(* Genome size functions *)

\* a size that also counts one bias gene per input neuron
gene_enc_genome_size_input_bias(cfg) ==
    sum(cfg.net.layer_dimensions) * (cfg.encoding.d + 1)

gene_enc_genome_size(cfg) ==
    LET d == cfg.encoding.d
        l_dims == cfg.net.layer_dimensions
    IN  l_dims[1] * d + sum(PySlice(l_dims, 1, Len(l_dims))) * (d + 1)

direct_enc_genome_size(cfg) ==
    LET tr == Transitions(cfg.net.layer_dimensions)
    IN  sum([k \in 1..Len(tr) |->
                tr[k].layer_in * tr[k].layer_out + tr[k].layer_out])

Encoding_size_function(cfg) ==
    IF cfg.encoding.type = "direct"
    THEN direct_enc_genome_size(cfg)
    ELSE gene_enc_genome_size(cfg)

----------------------------------------------------------------------------
(* Distance function set (gene/distances.py) *)

\* An exact real: the non-negative square root of an integer radicand
Sqrt(radicand) == [sqrt |-> radicand]

\* Euclidean norm of the difference of two position vectors
L2_dist(a, b) ==
    Sqrt(sum([k \in 1..Len(a) |-> (a[k] - b[k]) * (a[k] - b[k])]))

\* per-pair variant: the same scalar per (source, target) pair
pL2_dist(a, b) == L2_dist(a, b)

DistanceKeys == {"L2", "pL2"}

Distance(key, a, b) == IF key = "pL2" THEN pL2_dist(a, b) ELSE L2_dist(a, b)

\* a[idx] of jax.numpy: an index outside the array is clamped into it
Gather(a, idx) == a[Min(Max(idx, 0), Len(a) - 1) + 1]

\* Vectorized_distances[key](positions, src_idx, target_idx): all pairs, row =
\* source, column = target
Vectorized_distances(key, positions, src, tgt) ==
    [s \in 1..Len(src) |-> [t \in 1..Len(tgt) |->
        Distance(key, Gather(positions, src[s]), Gather(positions, tgt[t]))]]

----------------------------------------------------------------------------
(* Offsets computed inside the transition loops *)

\* a layer offset that includes layer i itself, sum(layer_dims[: i + 1])
layer_offset_inclusive(layer_dims, n) == sum(PySlice(layer_dims, 0, n + 1))

\* gene_decoding: layer_offset = sum(layer_dims[:i])
layer_offset(layer_dims, n) == sum(PySlice(layer_dims, 0, n))

\* a bias offset that counts the input layer, sum(layer_dims[: i + 1])
bias_offset_with_input(layer_dims, n) == sum(PySlice(layer_dims, 0, n + 1))

\* both decoders: start of the bias slice, sum(layer_dims[1 : i + 1])
bias_offset(layer_dims, n) == sum(PySlice(layer_dims, 1, n + 1))

\* gene_decoding: src_idx = layer_offset + arange(layer_in)
make_src_idx(layer_dims, n) ==
    arange_from(layer_offset(layer_dims, n), layer_dims[n + 1])

\* target indexes that start at the layer offset, layer_in forgotten
make_target_idx_no_layer_in(layer_dims, n) ==
    arange_from(sum(PySlice(layer_dims, 0, n)), layer_dims[n + 2])

\* gene_decoding: target_idx = layer_offset + layer_in + arange(layer_out)
make_target_idx(layer_dims, n) ==
    arange_from(layer_offset(layer_dims, n) + layer_dims[n + 1],
                layer_dims[n + 2])

\* a split point that leaves out the windows of the input layer
gene_split_point_outputs_only(cfg) ==
    sum(PySlice(cfg.net.layer_dimensions, 1, Len(cfg.net.layer_dimensions)))
        * cfg.encoding.d

\* gene_decoding: split point between the position block and the bias block
gene_split_point(cfg) == sum(cfg.net.layer_dimensions) * cfg.encoding.d

\* a split point that counts the biases too
direct_split_point_with_bias(layer_dims) ==
    sum([k \in 1..Max(Len(layer_dims) - 1, 0) |->
            layer_dims[k] * layer_dims[k + 1] + layer_dims[k + 1]])

\* direct_decoding: split point between the weight block and the bias block
direct_split_point(layer_dims) ==
    sum([k \in 1..Max(Len(layer_dims) - 1, 0) |->
            layer_dims[k] * layer_dims[k + 1]])

\* an offset that is never advanced
next_offset_stale(off, section_length) == off

\* direct_decoding: offset += section_length
next_offset(off, section_length) == off + section_length

----------------------------------------------------------------------------
(* Inputs of a call *)

RECURSIVE SeqsOf(_, _)
SeqsOf(S, n) ==
    IF n = 0 THEN {<<>>}
    ELSE {Append(s, e) : s \in SeqsOf(S, n - 1), e \in S}

\* the topology of the direct-encoding scenario
ScenarioTopologies == {<<4, 3, 2>>}

Topologies ==
    UNION {SeqsOf(1..MaxDim, n) : n \in 1..MaxLayers} \cup ScenarioTopologies

EncodingTypes == {"direct", "gene"}

\* d as found in a config file: not validated, so 0 and -1 are included
Dimensionalities == (0 - 1)..MaxD

\* the keys of Vectorized_distances and one key that is not among them
ConfiguredDistances == DistanceKeys \cup {"not_a_distance"}

Seeds == 1..MaxSeed

\* gene k (0-based) of the genome drawn with a seed: all genes differ and
\* differences of genes differ from pair to pair
GeneValue(seed, k) == seed * k * k + k

RawGenome(seed, n) == [k \in 1..n |-> GeneValue(seed, k - 1)]

\* parameters a caller chooses for a direct-encoded network: every weight
\* and every bias is a different number
ChosenParameters(layer_dims, seed) ==
    LET tr == Transitions(layer_dims)
    IN  [n \in 1..Len(tr) |->
            [kernel |-> [r \in 1..tr[n].layer_in |-> [c \in 1..tr[n].layer_out |->
                            seed * (100 * n + 10 * r + c)]],
             bias |-> [c \in 1..tr[n].layer_out |-> 0 - seed * (10 * n + c)]]]

RECURSIVE Flatten(_)
Flatten(ss) == IF Len(ss) = 0 THEN <<>> ELSE ss[1] \o Flatten(Tail(ss))

\* the direct genome of a parameter set: all weight matrices row-major in
\* transition order, then all bias vectors in transition order
ConcatGenome(params) ==
    Flatten([n \in 1..Len(params) |-> Flatten(params[n].kernel)])
        \o Flatten([n \in 1..Len(params) |-> params[n].bias])

MakeConfig(ty, layer_dims, d, dist) ==
    [encoding |-> [type |-> ty, d |-> d, distance |-> dist],
     net |-> [layer_dimensions |-> layer_dims]]

GenomeLengths(cfg) ==
    {Max(0, Encoding_size_function(cfg) + dl) : dl \in (0 - Slack)..Slack}

Locals0 ==
    /\ pc = "genome_to_model"
    /\ raised = "none"
    /\ genome_w = <<>>
    /\ genome_b = <<>>
    /\ genome_w_positions = <<>>
    /\ i = 0
    /\ offset = 0
    /\ weight_matrix = <<>>
    /\ biases = <<>>
    /\ src_idx = <<>>
    /\ target_idx = <<>>
    /\ model_parameters = <<>>
    /\ slicing = <<>>

\* the distance keys a config of the given type is drawn with: the direct
\* decoder never reads the key, its configs carry "pL2"
DistancesFor(ty) == IF ty = "direct" THEN {"pL2"} ELSE ConfiguredDistances

InitRaw ==
    \E ty \in EncodingTypes, layer_dims \in Topologies, d \in Dimensionalities,
       seed \in Seeds :
      \E dist \in DistancesFor(ty) :
        \E n \in GenomeLengths(MakeConfig(ty, layer_dims, d, dist)) :
            /\ config = MakeConfig(ty, layer_dims, d, dist)
            /\ genome = RawGenome(seed, n)
            /\ chosen = <<>>

InitEncoded ==
    \E layer_dims \in Topologies, d \in Dimensionalities,
       dist \in DistancesFor("direct"), seed \in Seeds :
        /\ config = MakeConfig("direct", layer_dims, d, dist)
        /\ chosen = ChosenParameters(layer_dims, seed)
        /\ genome = ConcatGenome(chosen)

\* the positional scenario: topology [2, 2], d = 1, distance L2
ScenarioGenome == <<0, 5, 10, 15, 1, 2>>

InitScenario ==
    /\ config = MakeConfig("gene", <<2, 2>>, 1, "L2")
    /\ genome = ScenarioGenome
    /\ chosen = <<>>

\* no run is in progress: the call is made on its own
NoRun ==
    /\ run_pc = "off"
    /\ num_dims = 0
    /\ state = 0
    /\ x = <<>>
    /\ temp_fitness = <<>>
    /\ fitness = <<>>
    /\ tracker_state = <<>>
    /\ generation = 0
    /\ individual = 0
    /\ result = "none"
    /\ objects = 0
    /\ chain = <<>>
    /\ log = <<>>
    /\ decoded = {}

Init == (InitRaw \/ InitEncoded \/ InitScenario) /\ Locals0 /\ NoRun

----------------------------------------------------------------------------
(* The call *)

layer_dims == config.net.layer_dimensions

\* one entry of the slicing log
SliceOp(op, array, len, start, eff, size) ==
    [op |-> op, array |-> array, len |-> len, start |-> start, eff |-> eff,
     size |-> size]

\* raise: the exception leaves the call, nothing is returned
Raise(exception) ==
    /\ raised' = exception
    /\ pc' = "raised"

\* genome_to_model: Encoding_function[config["encoding"]["type"]](genome, config)
genome_to_model ==
    /\ pc = "genome_to_model"
    /\ pc' = IF config.encoding.type = "direct" THEN "direct_split"
                                                ELSE "gene_assert"
    /\ UNCHANGED <<run_vars, config, genome, chosen, raised, genome_w, genome_b,
                   genome_w_positions, i, offset, weight_matrix, biases,
                   src_idx, target_idx, model_parameters, slicing>>

\* a dict that outlives the call (a module-level or default-argument dict)
shared_dict == model_parameters

\* model_parameters = {}
new_dict == <<>>

\* gene_decoding, the length assertion
gene_assert ==
    /\ pc = "gene_assert"
    /\ IF Len(genome) = gene_enc_genome_size(config)
       THEN pc' = "gene_split" /\ raised' = raised
       ELSE Raise("AssertionError")
    /\ UNCHANGED <<run_vars, config, genome, chosen, genome_w, genome_b,
                   genome_w_positions, i, offset, weight_matrix, biases,
                   src_idx, target_idx, model_parameters, slicing>>

\* gene_decoding, genome_w, genome_b = jnp.split(...); model_parameters = {}
gene_split ==
    /\ pc = "gene_split"
    /\ LET k == gene_split_point(config)
           parts == SplitAt(genome, k)
       IN  /\ genome_w' = parts[1]
           /\ genome_b' = parts[2]
           /\ slicing' = Append(slicing,
                  SliceOp("split", "genome", Len(genome), k, 0, Len(parts[1])))
    /\ model_parameters' = new_dict
    /\ i' = 0
    /\ pc' = "gene_loop"
    /\ UNCHANGED <<run_vars, config, genome, chosen, raised,
                   genome_w_positions, offset,
                   weight_matrix, biases, src_idx, target_idx>>

\* gene_decoding, the head of the for loop and the final return
gene_loop ==
    /\ pc = "gene_loop"
    /\ pc' = IF i < Len(Transitions(layer_dims)) THEN "gene_positions"
                                                 ELSE "returned"
    /\ UNCHANGED <<run_vars, config, genome, chosen, raised, genome_w, genome_b,
                   genome_w_positions, i, offset, weight_matrix, biases,
                   src_idx, target_idx, model_parameters, slicing>>

\* gene_decoding, genome_w_positions = jnp.array(jnp.split(genome_w, sum(...)))
gene_positions ==
    /\ pc = "gene_positions"
    /\ LET n == sum(layer_dims)
       IN  IF Len(genome_w) % n # 0
           THEN /\ Raise("ValueError")
                /\ UNCHANGED <<genome_w_positions, slicing>>
           ELSE /\ genome_w_positions' = SplitSections(genome_w, n)
                /\ slicing' = Append(slicing,
                       SliceOp("split", "genome_w", Len(genome_w), n, 0,
                               Len(genome_w) \div n))
                /\ pc' = "gene_indexes"
                /\ raised' = raised
    /\ UNCHANGED <<run_vars, config, genome, chosen, genome_w, genome_b, i, offset,
                   weight_matrix, biases, src_idx, target_idx,
                   model_parameters>>

\* gene_decoding, layer_offset, src_idx and target_idx
gene_indexes ==
    /\ pc = "gene_indexes"
    /\ src_idx' = make_src_idx(layer_dims, i)
    /\ target_idx' = make_target_idx(layer_dims, i)
    /\ pc' = "gene_distance"
    /\ UNCHANGED <<run_vars, config, genome, chosen, raised, genome_w, genome_b,
                   genome_w_positions, i, offset, weight_matrix, biases,
                   model_parameters, slicing>>

\* gene_decoding, weight_matrix = Vectorized_distances[...](...)
gene_distance ==
    /\ pc = "gene_distance"
    /\ IF config.encoding.distance \in DistanceKeys
       THEN /\ weight_matrix' = Vectorized_distances(config.encoding.distance,
                                    genome_w_positions, src_idx, target_idx)
            /\ pc' = "gene_bias"
            /\ raised' = raised
       ELSE /\ Raise("KeyError")
            /\ weight_matrix' = weight_matrix
    /\ UNCHANGED <<run_vars, config, genome, chosen, genome_w, genome_b,
                   genome_w_positions, i, offset, biases, src_idx, target_idx,
                   model_parameters, slicing>>

\* lax.dynamic_slice(genome_b, (sum(layer_dims[1 : i + 1]),), (layer_out,)),
\* shared by both decoders; a slice larger than the operand is rejected
BiasSlice(next_pc) ==
    LET start == bias_offset(layer_dims, i)
        layer_out == Transitions(layer_dims)[i + 1].layer_out
    IN  IF layer_out > Len(genome_b)
        THEN /\ Raise("TypeError")
             /\ UNCHANGED <<biases, slicing>>
        ELSE /\ biases' = dynamic_slice(genome_b, start, layer_out)
             /\ slicing' = Append(slicing,
                    SliceOp("dynamic_slice", "genome_b", Len(genome_b), start,
                            ClampStart(Len(genome_b), start, layer_out),
                            layer_out))
             /\ pc' = next_pc
             /\ raised' = raised

\* gene_decoding, biases = lax.dynamic_slice(genome_b, ...)
gene_bias ==
    /\ pc = "gene_bias"
    /\ BiasSlice("gene_store")
    /\ UNCHANGED <<run_vars, config, genome, chosen, genome_w, genome_b,
                   genome_w_positions, i, offset, weight_matrix, src_idx,
                   target_idx, model_parameters>>

\* model_parameters[f"Dense_{i}"] = {"kernel": weight_matrix, "bias": biases}
StoreLayer ==
    model_parameters' = Append(model_parameters,
        [key |-> <<"Dense", i>>, kernel |-> weight_matrix, bias |-> biases])

\* gene_decoding, the store that ends one pass of the loop
gene_store ==
    /\ pc = "gene_store"
    /\ StoreLayer
    /\ i' = i + 1
    /\ pc' = "gene_loop"
    /\ UNCHANGED <<run_vars, config, genome, chosen, raised, genome_w, genome_b,
                   genome_w_positions, offset, weight_matrix, biases, src_idx,
                   target_idx, slicing>>

\* direct_decoding, genome_w, genome_b = jnp.split(...); offset = 0
direct_split ==
    /\ pc = "direct_split"
    /\ LET k == direct_split_point(layer_dims)
           parts == SplitAt(genome, k)
       IN  /\ genome_w' = parts[1]
           /\ genome_b' = parts[2]
           /\ slicing' = Append(slicing,
                  SliceOp("split", "genome", Len(genome), k, 0, Len(parts[1])))
    /\ model_parameters' = new_dict
    /\ offset' = 0
    /\ i' = 0
    /\ pc' = "direct_loop"
    /\ UNCHANGED <<run_vars, config, genome, chosen, raised, genome_w_positions,
                   weight_matrix, biases, src_idx, target_idx>>

\* direct_decoding, the head of the for loop and the final return
direct_loop ==
    /\ pc = "direct_loop"
    /\ pc' = IF i < Len(Transitions(layer_dims)) THEN "direct_weights"
                                                 ELSE "returned"
    /\ UNCHANGED <<run_vars, config, genome, chosen, raised, genome_w, genome_b,
                   genome_w_positions, i, offset, weight_matrix, biases,
                   src_idx, target_idx, model_parameters, slicing>>

\* direct_decoding, the weight slice and its reshape
direct_weights ==
    /\ pc = "direct_weights"
    /\ LET tr == Transitions(layer_dims)[i + 1]
           section_length == tr.layer_in * tr.layer_out
       IN  IF section_length > Len(genome_w)
           THEN /\ Raise("TypeError")
                /\ UNCHANGED <<weight_matrix, slicing>>
           ELSE /\ weight_matrix' =
                       reshape(dynamic_slice(genome_w, offset, section_length),
                               tr.layer_in, tr.layer_out)
                /\ slicing' = Append(slicing,
                       SliceOp("dynamic_slice", "genome_w", Len(genome_w),
                               offset,
                               ClampStart(Len(genome_w), offset, section_length),
                               section_length))
                /\ pc' = "direct_bias"
                /\ raised' = raised
    /\ UNCHANGED <<run_vars, config, genome, chosen, genome_w, genome_b,
                   genome_w_positions, i, offset, biases, src_idx, target_idx,
                   model_parameters>>

\* direct_decoding, biases = lax.dynamic_slice(genome_b, ...)
direct_bias ==
    /\ pc = "direct_bias"
    /\ BiasSlice("direct_store")
    /\ UNCHANGED <<run_vars, config, genome, chosen, genome_w, genome_b,
                   genome_w_positions, i, offset, weight_matrix, src_idx,
                   target_idx, model_parameters>>

\* direct_decoding, the store and offset += section_length
direct_store ==
    /\ pc = "direct_store"
    /\ StoreLayer
    /\ LET tr == Transitions(layer_dims)[i + 1]
       IN  offset' = next_offset(offset, tr.layer_in * tr.layer_out)
    /\ i' = i + 1
    /\ pc' = "direct_loop"
    /\ UNCHANGED <<run_vars, config, genome, chosen, raised, genome_w, genome_b,
                   genome_w_positions, weight_matrix, biases, src_idx,
                   target_idx, slicing>>

Next ==
    \/ genome_to_model
    \/ gene_assert
    \/ gene_split
    \/ gene_loop
    \/ gene_positions
    \/ gene_indexes
    \/ gene_distance
    \/ gene_bias
    \/ gene_store
    \/ direct_split
    \/ direct_loop
    \/ direct_weights
    \/ direct_bias
    \/ direct_store

Spec == Init /\ [][Next]_vars

----------------------------------------------------------------------------
(* The training driver: run (src/run_brax.py)                               *)
(*                                                                          *)
(* The strategy, the rollout and the tracker are external: a strategy       *)
(* state is known by the serial number of the object that ask or tell       *)
(* returned, a population by the sample that was drawn, a rollout by the    *)
(* reward it ends with.  Evaluation decodes the individuals of the          *)
(* population one after the other with the decoders above; the locals of    *)
(* an earlier decode call are left where they are.                          *)

MaxGen == 2
MaxPop == 2
MaxReward == 1
MaxRunNeurons == 3

\* num_dims = gene_enc_genome_size(config)
run_num_dims(cfg) == gene_enc_genome_size(cfg)

\* fitness with the sign kept
not_negated(temp) == temp

\* fitness = -1 * temp_fitness
negated(temp) == [p \in 1..Len(temp) |-> (0 - 1) * temp[p]]

n_generations == config.evo.n_generations
population_size == config.evo.population_size

RunTopologies ==
    {ld \in Topologies : Len(ld) >= 2 /\ sum(ld) <= MaxRunNeurons}

\* d = 0 and d = 1: num_dims falls below and above the direct size
RunDimensionalities == {d \in Dimensionalities : d = 0 \/ d = 1}

\* n_generations: a loop that never runs and the longest one
RunLengths == {0, MaxGen}

RunConfig(ty, ld, d, dist, gens, pop) ==
    [encoding |-> [type |-> ty, d |-> d, distance |-> dist],
     net |-> [layer_dimensions |-> ld],
     evo |-> [n_generations |-> gens, population_size |-> pop]]

Rewards == 1..MaxReward

\* the population the strategy proposes for a sample: population_size
\* genomes of num_dims genes, no two alike while pop <= MaxSeed
Population(sample, pop, n) ==
    [p \in 1..pop |-> RawGenome(((sample + p - 2) % MaxSeed) + 1, n)]

decode_locals == <<genome_w, genome_b, genome_w_positions, i, offset,
                   weight_matrix, biases, src_idx, target_idx,
                   model_parameters>>

InitRun ==
    /\ \E ty \in EncodingTypes, ld \in RunTopologies,
          d \in RunDimensionalities, gens \in RunLengths,
          pop \in 1..MaxPop :
           config = RunConfig(ty, ld, d, "pL2", gens, pop)
    /\ genome = <<>>
    /\ chosen = <<>>
    /\ pc = "idle"
    /\ raised = "none"
    /\ genome_w = <<>>
    /\ genome_b = <<>>
    /\ genome_w_positions = <<>>
    /\ i = 0
    /\ offset = 0
    /\ weight_matrix = <<>>
    /\ biases = <<>>
    /\ src_idx = <<>>
    /\ target_idx = <<>>
    /\ model_parameters = <<>>
    /\ slicing = <<>>
    /\ run_pc = "run"
    /\ num_dims = 0
    /\ state = 0
    /\ x = <<>>
    /\ temp_fitness = <<>>
    /\ fitness = <<>>
    /\ tracker_state = <<>>
    /\ generation = 0
    /\ individual = 0
    /\ result = "none"
    /\ objects = 0
    /\ chain = <<>>
    /\ log = <<>>
    /\ decoded = {}

StrategyCall(op, in, out) == [op |-> op, state_in |-> in, out |-> out]

Collaborator(op, pop, fit) == [op |-> op, x |-> pop, fitness |-> fit]

\* run, up to the loop: num_dims, the strategy and its first state, the
\* tracker
run_setup ==
    /\ run_pc = "run"
    /\ num_dims' = run_num_dims(config)
    /\ state' = 1
    /\ objects' = 1
    /\ chain' = <<StrategyCall("initialize", 0, 1)>>
    /\ tracker_state' = [updates |-> 0, fitness |-> <<>>]
    /\ generation' = 0
    /\ run_pc' = "loop"
    /\ UNCHANGED <<config, genome, chosen, pc, raised, decode_locals, slicing,
                   x, temp_fitness, fitness, individual, result, log,
                   decoded>>

\* run, for _generation in range(n_generations) and return state
run_loop ==
    /\ run_pc = "loop"
    /\ IF generation < n_generations
       THEN run_pc' = "ask" /\ result' = result
       ELSE run_pc' = "returned" /\ result' = state
    /\ UNCHANGED <<config, genome, chosen, pc, raised, decode_locals, slicing,
                   num_dims, state, x, temp_fitness, fitness, tracker_state,
                   generation, individual, objects, chain, log, decoded>>

\* run, x, state = strategy.ask(rng_gen, state, es_params)
run_ask ==
    /\ run_pc = "ask"
    /\ \E sample \in Seeds :
        /\ x' = Population(sample, population_size, num_dims)
        /\ log' = <<Collaborator("ask", x', <<>>)>>
    /\ state' = objects + 1
    /\ objects' = objects + 1
    /\ chain' = Append(chain, StrategyCall("ask", state, objects + 1))
    /\ temp_fitness' = <<>>
    /\ individual' = 1
    /\ run_pc' = "evaluate"
    /\ UNCHANGED <<config, genome, chosen, pc, raised, decode_locals, slicing,
                   num_dims, fitness, tracker_state, generation, result,
                   decoded>>

\* evaluate_individual, genome_to_model(genome, config=config) for the next
\* individual of the population
run_evaluate_individual ==
    /\ run_pc = "evaluate"
    /\ pc = "idle"
    /\ individual <= population_size
    /\ genome' = x[individual]
    /\ pc' = "genome_to_model"
    /\ raised' = "none"
    /\ slicing' = <<>>
    /\ UNCHANGED <<config, chosen, decode_locals, run_vars>>

\* evaluate_individual, fitness = rollout(...) of the decoded individual
run_rollout ==
    /\ run_pc = "evaluate"
    /\ pc = "returned"
    /\ \E reward \in Rewards : temp_fitness' = Append(temp_fitness, reward)
    /\ decoded' = decoded \cup
           {[genome |-> genome, outcome |-> model_parameters]}
    /\ individual' = individual + 1
    /\ pc' = "idle"
    /\ UNCHANGED <<config, genome, chosen, raised, decode_locals, slicing,
                   run_pc, num_dims, state, x, fitness, tracker_state,
                   generation, result, objects, chain, log>>

\* an exception of the decoder leaves evaluate_individual and run
run_evaluate_raised ==
    /\ run_pc = "evaluate"
    /\ pc = "raised"
    /\ run_pc' = "raised"
    /\ UNCHANGED <<config, genome, chosen, pc, raised, decode_locals, slicing,
                   num_dims, state, x, temp_fitness, fitness, tracker_state,
                   generation, individual, result, objects, chain, log,
                   decoded>>

\* run, temp_fitness is complete; fitness = -1 * temp_fitness
run_negate ==
    /\ run_pc = "evaluate"
    /\ pc = "idle"
    /\ individual > population_size
    /\ fitness' = negated(temp_fitness)
    /\ log' = Append(log, Collaborator("evaluate", x, temp_fitness))
    /\ run_pc' = "tell"
    /\ UNCHANGED <<config, genome, chosen, pc, raised, decode_locals, slicing,
                   num_dims, state, x, temp_fitness, tracker_state,
                   generation, individual, result, objects, chain, decoded>>

\* run, state = strategy.tell(x, fitness, state, es_params)
run_tell ==
    /\ run_pc = "tell"
    /\ state' = objects + 1
    /\ objects' = objects + 1
    /\ chain' = Append(chain, StrategyCall("tell", state, objects + 1))
    /\ log' = Append(log, Collaborator("tell", x, fitness))
    /\ run_pc' = "track"
    /\ UNCHANGED <<config, genome, chosen, pc, raised, decode_locals, slicing,
                   num_dims, x, temp_fitness, fitness, tracker_state,
                   generation, individual, result, decoded>>

\* run, tracker_state = tracker.update(tracker_state, None, temp_fitness)
run_track ==
    /\ run_pc = "track"
    /\ tracker_state' = [updates |-> tracker_state.updates + 1,
                         fitness |-> temp_fitness]
    /\ log' = Append(log, Collaborator("track", <<>>, temp_fitness))
    /\ generation' = generation + 1
    /\ run_pc' = "loop"
    /\ UNCHANGED <<config, genome, chosen, pc, raised, decode_locals, slicing,
                   num_dims, state, x, temp_fitness, fitness, individual,
                   result, objects, chain, decoded>>

NextRun ==
    \/ Next
    \/ run_setup
    \/ run_loop
    \/ run_ask
    \/ run_evaluate_individual
    \/ run_rollout
    \/ run_evaluate_raised
    \/ run_negate
    \/ run_tell
    \/ run_track

SpecRun == InitRun /\ [][NextRun]_vars

----------------------------------------------------------------------------
(* Vocabulary of the properties *)

Returned == pc = "returned"
Finished == pc \in {"returned", "raised"}
IsGene == config.encoding.type = "gene"
IsDirect == config.encoding.type = "direct"
NLayers == Len(layer_dims)
GenomeSize == Encoding_size_function(config)
RightLength == Len(genome) = GenomeSize

\* number of neurons in the first n layers
NeuronsBefore(ld, n) == sum([k \in 1..n |-> ld[k]])

\* number of neurons in layers 1..n (the input layer, layer 0, left out)
OutputsBefore(ld, n) == sum([k \in 1..n |-> ld[k + 1]])

Range(s) == {s[k] : k \in 1..Len(s)}

\* the dynamic_slice operations performed so far on one block
SlicesOf(array) ==
    SelectSeq(slicing,
              LAMBDA e : e.op = "dynamic_slice" /\ e.array = array)

\* the slices lie end to end from 0, unclamped and inside a block of len genes
EndToEnd(ops) ==
    /\ \A k \in 1..Len(ops) :
        /\ ops[k].eff = ops[k].start
        /\ ops[k].eff + ops[k].size <= ops[k].len
    /\ Len(ops) > 0 => ops[1].eff = 0
    /\ \A k \in 1..(Len(ops) - 1) : ops[k + 1].eff = ops[k].eff + ops[k].size

\* ... and reach the end of the block
Tiles(ops, len) ==
    /\ EndToEnd(ops)
    /\ IF Len(ops) = 0 THEN len = 0
       ELSE ops[Len(ops)].eff + ops[Len(ops)].size = len

\* a non-empty set of integers without a gap
IsInterval(X) ==
    LET lo == CHOOSE v \in X : \A y \in X : v <= y
        hi == CHOOSE v \in X : \A y \in X : v >= y
    IN  X # {} /\ X = lo..hi

\* genome indexes (0-based) a dynamic_slice read
GenesRead(e) ==
    LET base == IF e.array = "genome_b" THEN Len(genome_w) ELSE 0
    IN  {base + e.eff + k : k \in 0..(e.size - 1)}

----------------------------------------------------------------------------
(* C1: decoding fails with a genome length mismatch if and only if the      *)
(* genome's length differs from the size function's value, for both         *)
(* schemes; a genome of the wrong length is never decoded.                  *)
C1_LengthContract ==
    Finished => ((raised = "AssertionError") <=> ~RightLength)

(* C2: for a topology of L >= 2 layers the returned mapping has L - 1       *)
(* entries, keyed Dense_0 .. Dense_{L-2} in that order; entry n has a       *)
(* kernel of shape (layer_dims[n], layer_dims[n+1]) and a bias of length    *)
(* layer_dims[n+1].                                                         *)
C2_Shapes ==
    (Returned /\ NLayers >= 2) =>
        /\ Len(model_parameters) = NLayers - 1
        /\ \A n \in 1..Len(model_parameters) :
            LET e == model_parameters[n]
            IN  /\ e.key = <<"Dense", n - 1>>
                /\ Len(e.kernel) = layer_dims[n]
                /\ \A r \in 1..Len(e.kernel) :
                       Len(e.kernel[r]) = layer_dims[n + 1]
                /\ Len(e.bias) = layer_dims[n + 1]

C2_Witness ==
    /\ Returned
    /\ IsGene
    /\ layer_dims = <<2, 1, 2>>
    /\ Len(model_parameters) = 2

(* C3: the genome that concatenates chosen weight matrices (row-major, in   *)
(* transition order) and then the chosen bias vectors is decoded by         *)
(* direct_decoding into exactly those matrices and vectors.                 *)
C3_DirectRoundTrip ==
    (IsDirect /\ chosen # <<>> /\ Finished) =>
        /\ Returned
        /\ Len(model_parameters) = Len(chosen)
        /\ \A n \in 1..Len(chosen) :
            /\ model_parameters[n].kernel = chosen[n].kernel
            /\ model_parameters[n].bias = chosen[n].bias

C3_Witness ==
    /\ Returned
    /\ IsDirect
    /\ chosen # <<>>
    /\ layer_dims = <<2, 2, 2>>
    /\ Len(model_parameters) = 2
    /\ model_parameters[2].kernel[2][1] = chosen[2].kernel[2][1]

\* sum over transitions of in * out + out, transition by transition
RECURSIVE DirectSum(_)
DirectSum(ld) ==
    IF Len(ld) < 2 THEN 0
    ELSE ld[1] * ld[2] + ld[2] + DirectSum(Tail(ld))

(* C4: direct_enc_genome_size is the sum over transitions of                *)
(* in * out + out, and on a genome of that length direct_decoding reads     *)
(* every gene exactly once: weight slices and bias slices lie end to end    *)
(* in transition order inside their own block and cover it.                 *)
C4_DirectCoverage ==
    /\ direct_enc_genome_size(config) = DirectSum(layer_dims)
    /\ (IsDirect /\ RightLength /\ Finished) =>
        /\ Returned
        /\ Tiles(SlicesOf("genome_w"), Len(genome_w))
        /\ Tiles(SlicesOf("genome_b"), Len(genome_b))
        /\ Len(genome_w) + Len(genome_b) = DirectSum(layer_dims)
        /\ \A g \in 0..(Len(genome) - 1) :
               Cardinality({k \in 1..Len(slicing) :
                   /\ slicing[k].op = "dynamic_slice"
                   /\ g \in GenesRead(slicing[k])}) = 1

C4_Witness ==
    /\ Returned
    /\ IsDirect
    /\ RightLength
    /\ layer_dims = <<2, 1, 2>>
    /\ Len(SlicesOf("genome_w")) = 2
    /\ Len(SlicesOf("genome_b")) = 2

Window(k) ==
    [j \in 1..config.encoding.d |-> genome[k * config.encoding.d + j]]

\* the kernel of transition n (0-based) as distances between position windows
KernelOfWindows(n) ==
    LET G == NeuronsBefore(layer_dims, n)
        layer_in == layer_dims[n + 1]
        layer_out == layer_dims[n + 2]
    IN  [s \in 1..layer_in |-> [t \in 1..layer_out |->
            Distance(config.encoding.distance,
                     Window(G + (s - 1)), Window(G + layer_in + (t - 1)))]]

(* C6: in gene_decoding kernel_n[s][t] is the distance between the position *)
(* windows of neuron G_n + s and neuron G_n + layer_in + t, where G_n       *)
(* counts the neurons of the layers before layer n and window k is          *)
(* genome[k*d, (k+1)*d); a hidden neuron has one window, whether target or  *)
(* source.                                                                  *)
C6_KernelFromWindows ==
    IsGene =>
        /\ \A n \in 1..Len(model_parameters) :
               model_parameters[n].kernel = KernelOfWindows(n - 1)
        /\ pc \in {"gene_bias", "gene_store"} =>
               weight_matrix = KernelOfWindows(i)
        /\ pc = "gene_distance" =>
            /\ \A s \in 1..Len(src_idx) :
                   genome_w_positions[src_idx[s] + 1] =
                       Window(NeuronsBefore(layer_dims, i) + (s - 1))
            /\ \A t \in 1..Len(target_idx) :
                   genome_w_positions[target_idx[t] + 1] =
                       Window(NeuronsBefore(layer_dims, i + 1) + (t - 1))

C6_Witness ==
    /\ Returned
    /\ IsGene
    /\ layer_dims = <<2, 2, 1>>
    /\ config.encoding.d = 2
    /\ Len(model_parameters) = 2
    /\ model_parameters[2].kernel[2][1] = L2_dist(Window(3), Window(4))

(* C7: for every transition the source and target index ranges are          *)
(* disjoint and adjacent, the target range of transition n is the source    *)
(* range of transition n + 1, every index lies in [0, sum(layer_dims)),     *)
(* and all ranges together are exactly [0, sum(layer_dims)).                *)
C7_IndexRanges ==
    LET total == NeuronsBefore(layer_dims, NLayers)
        Src(n) == Range(make_src_idx(layer_dims, n))
        Tgt(n) == Range(make_target_idx(layer_dims, n))
        Adjacent(S, T) ==
            /\ S \cap T = {}
            /\ \A v \in S, y \in T : v < y
            /\ IsInterval(S \cup T)
            /\ S \cup T \subseteq 0..(total - 1)
    IN  /\ (pc = "genome_to_model" /\ NLayers >= 2) =>
            /\ \A n \in 0..(NLayers - 2) :
                /\ Adjacent(Src(n), Tgt(n))
                /\ Cardinality(Src(n)) = layer_dims[n + 1]
                /\ Cardinality(Tgt(n)) = layer_dims[n + 2]
                /\ n < NLayers - 2 => Tgt(n) = Src(n + 1)
            /\ UNION {Src(n) \cup Tgt(n) : n \in 0..(NLayers - 2)}
                   = 0..(total - 1)
        /\ pc \in {"gene_distance", "gene_bias", "gene_store"} =>
            /\ Adjacent(Range(src_idx), Range(target_idx))
            /\ Len(src_idx) = layer_dims[i + 1]
            /\ Len(target_idx) = layer_dims[i + 2]
            /\ i = 0 => 0 \in Range(src_idx)
            /\ i = NLayers - 2 => (total - 1) \in Range(target_idx)
            /\ i < NLayers - 2 =>
                   Range(target_idx) = Range(make_src_idx(layer_dims, i + 1))

C7_Witness ==
    /\ pc = "gene_distance"
    /\ i = 1
    /\ layer_dims = <<2, 1, 2>>
    /\ src_idx = <<2>>
    /\ target_idx = <<3, 4>>

(* C8: in both decoders the bias of transition n is the slice of the bias   *)
(* block that starts at sum(layer_dims[1..n]) and has layer_dims[n+1]       *)
(* genes; on a genome of the right length the slices are never clamped,     *)
(* are disjoint and tile the bias block in transition order.                *)
C8_BiasSlices ==
    LET ops == SlicesOf("genome_b")
    IN  (RightLength /\ pc # "raised") =>
            /\ EndToEnd(ops)
            /\ \A k \in 1..Len(ops) :
                /\ ops[k].start = OutputsBefore(layer_dims, k - 1)
                /\ ops[k].size = layer_dims[k + 1]
                /\ ops[k].len = OutputsBefore(layer_dims, NLayers - 1)
            /\ \A n \in 1..Len(model_parameters) :
                   model_parameters[n].bias =
                       [c \in 1..layer_dims[n + 1] |->
                           genome_b[OutputsBefore(layer_dims, n - 1) + c]]
            /\ Returned =>
                /\ Len(ops) = NLayers - 1
                /\ Tiles(ops, Len(genome_b))

C8_Witness ==
    /\ Returned
    /\ IsGene
    /\ RightLength
    /\ layer_dims = <<1, 2, 2>>
    /\ Len(SlicesOf("genome_b")) = 2
    /\ SlicesOf("genome_b")[2].eff = 2

(* C9: decoding with a single-entry topology fails for every scheme and     *)
(* every genome; it never returns a parameter mapping.                      *)
C9_SingleEntryRejected ==
    NLayers = 1 => ~Returned

(* C10: in gene_decoding a distance key outside the distance function set   *)
(* is reported before any array slicing of the genome occurs.               *)
C10_KeyCheckedBeforeSlicing ==
    (IsGene /\ config.encoding.distance \notin DistanceKeys) =>
        slicing = <<>>

(* C11: for the positional scheme a dimensionality d <= 0 is reported as   *)
(* a contract violation for every topology and genome, also for a genome    *)
(* of length gene_enc_genome_size; no parameter mapping is returned.        *)
C11_NonPositiveDRejected ==
    (IsGene /\ config.encoding.d <= 0) => ~Returned

\* gene k (0-based) of the genome of the call
Gene(k) == genome[k + 1]

(* C12: scenario A. For topology [4, 3, 2] and scheme direct the genome     *)
(* size is 23, and a genome g of 23 genes decodes to kernel 0 = g[0..11]    *)
(* as [4, 3] row-major, kernel 1 = g[12..17] as [3, 2] row-major,           *)
(* bias 0 = g[18..20] and bias 1 = g[21..22].                               *)
C12_ScenarioA ==
    (IsDirect /\ layer_dims = <<4, 3, 2>>) =>
        /\ direct_enc_genome_size(config) = 23
        /\ (Len(genome) = 23 /\ Finished) =>
            /\ Returned
            /\ Len(model_parameters) = 2
            /\ model_parameters[1].kernel =
                   << <<Gene(0), Gene(1), Gene(2)>>,
                      <<Gene(3), Gene(4), Gene(5)>>,
                      <<Gene(6), Gene(7), Gene(8)>>,
                      <<Gene(9), Gene(10), Gene(11)>> >>
            /\ model_parameters[2].kernel =
                   << <<Gene(12), Gene(13)>>,
                      <<Gene(14), Gene(15)>>,
                      <<Gene(16), Gene(17)>> >>
            /\ model_parameters[1].bias = <<Gene(18), Gene(19), Gene(20)>>
            /\ model_parameters[2].bias = <<Gene(21), Gene(22)>>

C12_Witness ==
    /\ Returned
    /\ IsDirect
    /\ layer_dims = <<4, 3, 2>>
    /\ Len(genome) = 23
    /\ chosen = <<>>
    /\ model_parameters[2].bias = <<Gene(21), Gene(22)>>

\* the real number k >= 0 as a distance value
Real(k) == Sqrt(k * k)

(* C13: scenario B. For topology [2, 2], scheme gene, d = 1 and distance    *)
(* L2 the genome size is 6, and the genome [0, 5, 10, 15, 1, 2] decodes to  *)
(* the kernel [[10, 15], [5, 10]] and the bias [1, 2], every layer offset   *)
(* and bias offset being zero.                                              *)
C13_ScenarioB ==
    (config = MakeConfig("gene", <<2, 2>>, 1, "L2")
        /\ genome = ScenarioGenome) =>
        /\ gene_enc_genome_size(config) = 6
        /\ Finished =>
            /\ Returned
            /\ Len(model_parameters) = 1
            /\ model_parameters[1].kernel =
                   << <<Real(10), Real(15)>>, <<Real(5), Real(10)>> >>
            /\ model_parameters[1].bias = <<1, 2>>
            /\ src_idx = <<0, 1>>
            /\ target_idx = <<2, 3>>
            /\ \A k \in 1..Len(slicing) :
                   slicing[k].op = "dynamic_slice" =>
                       slicing[k].start = 0 /\ slicing[k].eff = 0

C13_Witness ==
    /\ Returned
    /\ config = MakeConfig("gene", <<2, 2>>, 1, "L2")
    /\ genome = ScenarioGenome
    /\ model_parameters[1].kernel[1][2] = Real(15)

\* the kernel of transition n (0-based) with the two position vectors of
\* every pair exchanged: L2 of (target window, source window)
KernelOfSwappedWindows(n) ==
    LET G == NeuronsBefore(layer_dims, n)
        layer_in == layer_dims[n + 1]
        layer_out == layer_dims[n + 2]
    IN  [s \in 1..layer_in |-> [t \in 1..layer_out |->
            L2_dist(Window(G + layer_in + (t - 1)), Window(G + (s - 1)))]]

DecodeReturnedInRun == run_pc = "evaluate" /\ pc = "returned"

\* the genome of the call was decoded before, in this run
DecodedBefore == \E e \in decoded : e.genome = genome

C16_NumDimsIsDecoderSize ==
    /\ run_pc \notin {"off", "run"} =>
           num_dims = Encoding_size_function(config)
    /\ (run_pc = "evaluate" /\ pc = "genome_to_model") =>
           Len(genome) = Encoding_size_function(config)

\* the collaborator calls of one generation, in order
GenerationOrder == <<"ask", "evaluate", "tell", "track">>

(* C17: every generation of run performs ask, evaluate, tell and the        *)
(* tracker update in that order; tell receives the population of that       *)
(* generation's ask and the negated evaluation result, the tracker the      *)
(* evaluation result itself; ask of the next generation receives the state  *)
(* tell returned; run returns after exactly n_generations generations with  *)
(* the state of the last tell.                                              *)
C17_GenerationLoop ==
    run_pc \notin {"off", "run"} =>
        /\ \A k \in 1..Len(log) : log[k].op = GenerationOrder[k]
        /\ Len(log) <= 4
        /\ run_pc = "evaluate" => Len(log) = 1
        /\ run_pc = "tell" => Len(log) = 2
        /\ run_pc = "track" => Len(log) = 3
        /\ (run_pc \in {"loop", "ask", "returned"} /\ generation >= 1) =>
               Len(log) = 4
        /\ Len(log) >= 2 =>
            /\ log[2].x = log[1].x
            /\ Len(log[2].fitness) = population_size
        /\ Len(log) >= 3 =>
            /\ log[3].x = log[1].x
            /\ Len(log[3].fitness) = Len(log[2].fitness)
            /\ \A p \in 1..Len(log[2].fitness) :
                   log[3].fitness[p] + log[2].fitness[p] = 0
        /\ Len(log) = 4 =>
            /\ log[4].fitness = log[2].fitness
            /\ tracker_state.fitness = log[2].fitness
        /\ chain[1].op = "initialize"
        /\ \A k \in 2..Len(chain) :
            /\ chain[k].state_in = chain[k - 1].out
            /\ chain[k].op = IF k % 2 = 0 THEN "ask" ELSE "tell"
        /\ state = chain[Len(chain)].out
        /\ generation <= n_generations
        /\ run_pc \in {"loop", "ask"} => Len(chain) = 1 + 2 * generation
        /\ run_pc = "returned" =>
            /\ generation = n_generations
            /\ tracker_state.updates = n_generations
            /\ Len(chain) = 1 + 2 * n_generations
            /\ result = chain[Len(chain)].out
            /\ n_generations >= 1 => chain[Len(chain)].op = "tell"

C17_Witness ==
    /\ run_pc = "returned"
    /\ n_generations = MaxGen
    /\ population_size = MaxPop
    /\ Len(log) = 4
    /\ \A p \in 1..population_size : log[3].fitness[p] < 0
    /\ result = 1 + 2 * MaxGen

====
